---------------------------- MODULE Spec2Model ----------------------------
(***************************************************************************)
(* A model of rawinput_joystick_logger.py: the Raw Input joystick logger.  *)
(*                                                                         *)
(* Values.  Python's None is the empty sequence and a present optional     *)
(* value a one-element sequence.  A str is a sequence of one-character     *)
(* strings, bytes a sequence of integers 0..255.  A float is an exact      *)
(* fraction in lowest terms with a positive denominator (the rounding of   *)
(* IEEE doubles is not modelled; the ranges used here stay far below 2^53, *)
(* where int -> float is exact).                                           *)
(***************************************************************************)
EXTENDS Integers, Sequences, FiniteSets, TLC

VARIABLES
    device_filter,   \* RawInputLogger.device_filter
    device_cache,    \* RawInputLogger.device_cache: handle value -> DeviceState
    sink,            \* the rows handed to EventWriter.write_event, in order
    nevents,         \* number of WM_INPUT notifications handled so far
    constructed,     \* per handle, how many times DeviceState(handle) ran
    lastq,           \* per handle, the query outcomes of its last construction
    last,            \* the last notification decoded: its reports and decode faults
    call,            \* the arguments of a call of a pure function
    ret              \* its result: <<>> while pending, <<value>> once returned

vars == <<device_filter, device_cache, sink, nevents, constructed, lastq, last, call, ret>>

loggerVars == <<device_filter, device_cache, sink, nevents, constructed, lastq, last>>

callVars == <<call, ret>>

---------------------------------------------------------------------------
(* Bounds of the model. *)

MaxBlobLen == 4

MaxReportSize == 3

MaxCount == 3

MaxLogical == 3

MaxValueCaps == 2

MaxButtonCaps == 2

MaxReportLen == 2

MaxEvents == 2

---------------------------------------------------------------------------
(* Program constants. *)

RIM_TYPEHID == 2

HIDP_STATUS_SUCCESS == 1114112

USAGE_PAGE_GENERIC_DESKTOP == 1

USAGE_X == 48

USAGE_Y == 49

USAGE_Z == 50

USAGE_RX == 51

USAGE_RY == 52

USAGE_RZ == 53

USAGE_SLIDER == 54

USAGE_DIAL == 55

USAGE_WHEEL == 56

USAGE_HAT == 57

AXIS_USAGE_NAMES ==
    (USAGE_X :> "x") @@ (USAGE_Y :> "y") @@ (USAGE_Z :> "z") @@
    (USAGE_RX :> "rx") @@ (USAGE_RY :> "ry") @@ (USAGE_RZ :> "rz") @@
    (USAGE_SLIDER :> "slider") @@ (USAGE_DIAL :> "dial") @@
    (USAGE_WHEEL :> "wheel") @@ (USAGE_HAT :> "hat")

---------------------------------------------------------------------------
(* Python values. *)

None == <<>>

Some(x) == <<x>>

Min(a, b) == IF a <= b THEN a ELSE b

Abs(a) == IF a < 0 THEN -a ELSE a

RECURSIVE GCD(_, _)
GCD(a, b) == IF b = 0 THEN a ELSE GCD(b, a % b)

\* The float n/d, d # 0.
Float(n, d) ==
    LET g == GCD(Abs(n), Abs(d))
        s == IF d < 0 THEN -1 ELSE 1
    IN  [num |-> (s * n) \div g, den |-> (s * d) \div g]

FMul(f, k) == Float(f.num * k, f.den)

FSub(f, k) == Float(f.num - k * f.den, f.den)

\* _check_hidp
check_hidp(status) == status = HIDP_STATUS_SUCCESS

---------------------------------------------------------------------------
(* normalize_value *)

\* A slip: a degenerate range guarded by returning 0 instead of None.
normalize_value_zero(value, logical_min, logical_max) ==
    IF logical_max = logical_min
    THEN Some(Float(0, 1))
    ELSE LET span == logical_max - logical_min
         IN  IF logical_min < 0
             THEN Some(FSub(FMul(Float(value - logical_min, span), 2), 1))
             ELSE Some(Float(value - logical_min, span))

\* A slip: both kinds of range scaled to [0, 1].
normalize_value_unsigned(value, logical_min, logical_max) ==
    IF logical_max = logical_min
    THEN None
    ELSE Some(Float(value - logical_min, logical_max - logical_min))

normalize_value(value, logical_min, logical_max) ==
    IF logical_max = logical_min
    THEN None
    ELSE LET span == logical_max - logical_min
         IN  IF logical_min < 0
             THEN Some(FSub(FMul(Float(value - logical_min, span), 2), 1))
             ELSE Some(Float(value - logical_min, span))

---------------------------------------------------------------------------
(* parse_report_bytes *)

RECURSIVE parse_report_loop_strict(_, _, _, _, _)
parse_report_loop_strict(data, report_size, count, idx, reports) ==
    IF idx >= count
    THEN reports
    ELSE LET start == idx * report_size
             end == start + report_size
         IN  parse_report_loop_strict(data, report_size, count, idx + 1,
                 IF end < Len(data)
                 THEN Append(reports, SubSeq(data, start + 1, end))
                 ELSE reports)

\* A slip: "end < len(data)" drops a report that ends exactly at the blob's end.
parse_report_bytes_strict(data, report_size, count) ==
    parse_report_loop_strict(data, report_size, count, 0, <<>>)

\* The loop "for idx in range(count)", from idx on, with the reports so far.
RECURSIVE parse_report_loop(_, _, _, _, _)
parse_report_loop(data, report_size, count, idx, reports) ==
    IF idx >= count
    THEN reports
    ELSE LET start == idx * report_size
             end == start + report_size
         IN  parse_report_loop(data, report_size, count, idx + 1,
                 IF end <= Len(data)
                 THEN Append(reports, SubSeq(data, start + 1, end))
                 ELSE reports)

parse_report_bytes(data, report_size, count) ==
    parse_report_loop(data, report_size, count, 0, <<>>)

---------------------------------------------------------------------------
(* The HID parser of the platform (hid.dll), which the program reaches     *)
(* only through HidP_* calls on the opaque preparsed data.  Here the       *)
(* preparsed data of a device is the pair of capability tables its report  *)
(* descriptor declares, [value_caps, button_caps]; a report is packed: the *)
(* value fields in table order (BitSize bits each, little-endian,          *)
(* ReportCount of them for a usage range), then one byte per button        *)
(* capability, bit k of it standing for usage UsageMin + k.                *)
(*                                                                         *)
(* HIDP_VALUE_CAPS and HIDP_BUTTON_CAPS are records of the fields the      *)
(* program reads.  u.Range.UsageMin and u.NotRange.Usage are one field of  *)
(* the union u: UsageMin.                                                  *)

\* The status codes as the signed 32-bit integers ctypes returns.
HidpStatus(name) ==
    CASE name = "SUCCESS" -> HIDP_STATUS_SUCCESS
      [] name = "INVALID_REPORT_LENGTH" -> -1072627709
      [] name = "USAGE_NOT_FOUND" -> -1072627708
      [] name = "BUFFER_TOO_SMALL" -> -1072627705
      [] name = "INVALID_PREPARSED_DATA" -> -1072627711

RangeUsageMin(cap) == cap.UsageMin

RangeUsageMax(cap) == cap.UsageMax

NotRangeUsage(cap) == cap.UsageMin

\* range(a, b + 1) as a list.
PyRange(a, b) == [i \in 1..(IF b >= a THEN b - a + 1 ELSE 0) |-> a + i - 1]

FieldBytes(cap) == cap.BitSize \div 8

RECURSIVE ValueBytesBefore(_, _)
ValueBytesBefore(value_caps, i) ==
    IF i <= 1
    THEN 0
    ELSE ValueBytesBefore(value_caps, i - 1)
         + FieldBytes(value_caps[i - 1]) * value_caps[i - 1].ReportCount

CapHasUsage(cap, usage_page, usage) ==
    /\ cap.UsagePage = usage_page
    /\ IF cap.IsRange
       THEN RangeUsageMin(cap) <= usage /\ usage <= RangeUsageMax(cap)
       ELSE usage = NotRangeUsage(cap)

\* The value of a usage's field, zero-extended into the caller's ULONG.
HidP_GetUsageValue(usage_page, usage, preparsed, report, report_len) ==
    LET vc == preparsed.value_caps
        hits == {i \in 1..Len(vc) : CapHasUsage(vc[i], usage_page, usage)}
    IN  IF hits = {}
        THEN [status |-> HidpStatus("USAGE_NOT_FOUND"), value |-> 0]
        ELSE LET i == CHOOSE j \in hits : \A k \in hits : j <= k
                 n == FieldBytes(vc[i])
                 first == ValueBytesBefore(vc, i)
                          + (usage - RangeUsageMin(vc[i])) * n + 1
             IN  IF first + n - 1 > report_len
                 THEN [status |-> HidpStatus("INVALID_REPORT_LENGTH"), value |-> 0]
                 ELSE [status |-> HidpStatus("SUCCESS"),
                       value |-> IF n = 1
                                 THEN report[first]
                                 ELSE report[first] + 256 * report[first + 1]]

Bit(b, k) == (b \div (2 ^ k)) % 2

ButtonSpan(cap) ==
    IF cap.IsRange THEN RangeUsageMax(cap) - RangeUsageMin(cap) + 1 ELSE 1

ButtonByte(preparsed, i) ==
    ValueBytesBefore(preparsed.value_caps, Len(preparsed.value_caps) + 1) + i

\* The usages of button capability i that the report asserts, ascending.
RECURSIVE AssertedFrom(_, _, _)
AssertedFrom(cap, byte, k) ==
    IF k >= ButtonSpan(cap)
    THEN <<>>
    ELSE (IF Bit(byte, k) = 1 THEN <<RangeUsageMin(cap) + k>> ELSE <<>>)
         \o AssertedFrom(cap, byte, k + 1)

RECURSIVE AssertedOnPage(_, _, _, _, _)
AssertedOnPage(preparsed, report, usage_page, link_collection, i) ==
    IF i > Len(preparsed.button_caps)
    THEN <<>>
    ELSE LET cap == preparsed.button_caps[i]
         IN  (IF /\ cap.UsagePage = usage_page
                 /\ (link_collection = 0 \/ cap.LinkCollection = link_collection)
              THEN AssertedFrom(cap, report[ButtonByte(preparsed, i)], 0)
              ELSE <<>>)
             \o AssertedOnPage(preparsed, report, usage_page, link_collection, i + 1)

\* Every asserted button usage of the page in the link collection (0: any).
HidP_GetUsages(usage_page, link_collection, max_usages, preparsed, report, report_len) ==
    LET bc == preparsed.button_caps
        hits == {i \in 1..Len(bc) :
                    /\ bc[i].UsagePage = usage_page
                    /\ (link_collection = 0 \/ bc[i].LinkCollection = link_collection)}
    IN  IF hits = {}
        THEN [status |-> HidpStatus("USAGE_NOT_FOUND"), usages |-> <<>>]
        ELSE IF \E i \in hits : ButtonByte(preparsed, i) > report_len
        THEN [status |-> HidpStatus("INVALID_REPORT_LENGTH"), usages |-> <<>>]
        ELSE LET on == AssertedOnPage(preparsed, report, usage_page, link_collection, 1)
             IN  IF Len(on) > max_usages
                 THEN [status |-> HidpStatus("BUFFER_TOO_SMALL"), usages |-> <<>>]
                 ELSE [status |-> HidpStatus("SUCCESS"), usages |-> on]

---------------------------------------------------------------------------
(* hid_get_usage_value, hid_get_usages, decode_hid_report *)

hid_get_usage_value(preparsed, report_buf, report_len, usage_page, usage) ==
    LET r == HidP_GetUsageValue(usage_page, usage, preparsed, report_buf, report_len)
    IN  IF ~check_hidp(r.status) THEN None ELSE Some(r.value)

hid_get_usages(preparsed, report_buf, report_len, usage_page, link_collection, max_usages) ==
    LET r == HidP_GetUsages(usage_page, link_collection, max_usages,
                            preparsed, report_buf, report_len)
    IN  IF ~check_hidp(r.status) THEN <<>> ELSE r.usages

SetOf(s) == {s[i] : i \in 1..Len(s)}

\* sorted(set(buttons))
RECURSIVE Sorted(_)
Sorted(S) ==
    IF S = {}
    THEN <<>>
    ELSE LET m == CHOOSE x \in S : \A y \in S : x <= y
         IN  <<m>> \o Sorted(S \ {m})

\* A slip: the value read back as a signed field of the capability's width.
AxisReading_signed(value, norm, cap) ==
    LET signed == IF cap.LogicalMin < 0 /\ value >= 2 ^ (cap.BitSize - 1)
                  THEN value - 2 ^ cap.BitSize
                  ELSE value
    IN  [raw |-> signed,
         norm |-> normalize_value(signed, cap.LogicalMin, cap.LogicalMax),
         min |-> cap.LogicalMin, max |-> cap.LogicalMax]

\* The value is the ULONG HidP_GetUsageValue filled in, read with int(value.value):
\* never negative.
AxisReading(value, norm, cap) ==
    [raw |-> value, norm |-> norm, min |-> cap.LogicalMin, max |-> cap.LogicalMax]

\* The loop "for usage in usages" of one value capability, from usages[i] on.
RECURSIVE decode_usages(_, _, _, _, _, _)
decode_usages(report, preparsed, cap, usages, i, axes) ==
    IF i > Len(usages)
    THEN axes
    ELSE LET usage == usages[i]
             value == hid_get_usage_value(preparsed, report, Len(report),
                                          cap.UsagePage, usage)
         IN  IF usage \notin DOMAIN AXIS_USAGE_NAMES
             THEN decode_usages(report, preparsed, cap, usages, i + 1, axes)
             ELSE IF value = None
             THEN decode_usages(report, preparsed, cap, usages, i + 1, axes)
             ELSE decode_usages(report, preparsed, cap, usages, i + 1,
                      (AXIS_USAGE_NAMES[usage] :>
                          AxisReading(value[1],
                              normalize_value(value[1], cap.LogicalMin, cap.LogicalMax),
                              cap))
                      @@ axes)

\* The loop "for cap in value_caps", from value_caps[i] on.
RECURSIVE decode_values(_, _, _, _, _)
decode_values(report, preparsed, value_caps, i, axes) ==
    IF i > Len(value_caps)
    THEN axes
    ELSE LET cap == value_caps[i]
             usages == IF cap.IsRange
                       THEN PyRange(RangeUsageMin(cap), RangeUsageMax(cap))
                       ELSE <<NotRangeUsage(cap)>>
         IN  IF cap.UsagePage # USAGE_PAGE_GENERIC_DESKTOP
             THEN decode_values(report, preparsed, value_caps, i + 1, axes)
             ELSE decode_values(report, preparsed, value_caps, i + 1,
                      decode_usages(report, preparsed, cap, usages, 1, axes))

\* The loop "for cap in button_caps", from button_caps[i] on.
RECURSIVE decode_buttons(_, _, _, _, _)
decode_buttons(report, preparsed, button_caps, i, buttons) ==
    IF i > Len(button_caps)
    THEN buttons
    ELSE LET cap == button_caps[i]
             max_usages == IF cap.IsRange
                           THEN RangeUsageMax(cap) - RangeUsageMin(cap) + 1
                           ELSE 1
         IN  IF max_usages <= 0
             THEN decode_buttons(report, preparsed, button_caps, i + 1, buttons)
             ELSE decode_buttons(report, preparsed, button_caps, i + 1,
                      buttons \o hid_get_usages(preparsed, report, Len(report),
                                     cap.UsagePage, cap.LinkCollection, max_usages))

\* A slip: the accumulated list returned as it is, without sorted(set(...)).
decode_hid_report_unsorted(report, preparsed, value_caps, button_caps) ==
    [axes |-> decode_values(report, preparsed, value_caps, 1, <<>>),
     buttons |-> decode_buttons(report, preparsed, button_caps, 1, <<>>)]

decode_hid_report(report, preparsed, value_caps, button_caps) ==
    [axes |-> decode_values(report, preparsed, value_caps, 1, <<>>),
     buttons |-> Sorted(SetOf(decode_buttons(report, preparsed, button_caps, 1, <<>>)))]

---------------------------------------------------------------------------
(* The devices of the platform, by raw input handle, and what a           *)
(* GetRawInputDeviceInfoW or HidP_* capability query answers.  A query     *)
(* outcome q says which of the queries of one DeviceState construction     *)
(* succeed.                                                                *)

Handles == {1, 2}

Device(handle) ==
    IF handle = 1
    THEN [name |-> <<"T", "h", "r">>,
          info |-> [usUsagePage |-> 1, usUsage |-> 4],
          preparsed |->
              [value_caps |-> <<[UsagePage |-> USAGE_PAGE_GENERIC_DESKTOP,
                                 IsRange |-> FALSE, UsageMin |-> USAGE_X,
                                 UsageMax |-> USAGE_X, LogicalMin |-> -128,
                                 LogicalMax |-> 127, BitSize |-> 8, ReportCount |-> 1]>>,
               button_caps |-> <<[UsagePage |-> 9, LinkCollection |-> 0, IsRange |-> TRUE,
                                  UsageMin |-> 4, UsageMax |-> 6],
                                 [UsagePage |-> 9, LinkCollection |-> 0, IsRange |-> FALSE,
                                  UsageMin |-> 5, UsageMax |-> 5]>>]]
    ELSE [name |-> <<"L", "o", "g">>,
          info |-> [usUsagePage |-> 1, usUsage |-> 5],
          preparsed |->
              [value_caps |-> <<>>,
               button_caps |-> <<[UsagePage |-> 9, LinkCollection |-> 0, IsRange |-> TRUE,
                                  UsageMin |-> 4, UsageMax |-> 6]>>]]

AllOk ==
    [name |-> TRUE, info |-> TRUE, preparsed |-> TRUE,
     caps |-> "SUCCESS", value_caps |-> "SUCCESS", button_caps |-> "SUCCESS"]

QueryOutcomes ==
    { AllOk,
      [AllOk EXCEPT !.name = FALSE],
      [AllOk EXCEPT !.info = FALSE],
      [AllOk EXCEPT !.preparsed = FALSE],
      [AllOk EXCEPT !.caps = "INVALID_PREPARSED_DATA"],
      [AllOk EXCEPT !.value_caps = "INVALID_PREPARSED_DATA"],
      [AllOk EXCEPT !.button_caps = "INVALID_PREPARSED_DATA"],
      [name |-> FALSE, info |-> FALSE, preparsed |-> FALSE,
       caps |-> "SUCCESS", value_caps |-> "SUCCESS", button_caps |-> "SUCCESS"] }

HidP_GetCaps(preparsed, q) ==
    [status |-> HidpStatus(q.caps),
     caps |-> [NumberInputValueCaps |-> Len(preparsed.value_caps),
               NumberInputButtonCaps |-> Len(preparsed.button_caps)]]

\* Fills the caller's array and sets the count to the entries written.
HidP_GetValueCaps(preparsed, q) ==
    [status |-> HidpStatus(q.value_caps),
     count |-> Len(preparsed.value_caps),
     array |-> preparsed.value_caps]

HidP_GetButtonCaps(preparsed, q) ==
    [status |-> HidpStatus(q.button_caps),
     count |-> Len(preparsed.button_caps),
     array |-> preparsed.button_caps]

---------------------------------------------------------------------------
(* get_device_name, get_device_info, get_preparsed_data, parse_hid_caps,   *)
(* DeviceState                                                             *)

get_device_name(handle, q) == IF ~q.name THEN <<>> ELSE Device(handle).name

get_device_info(handle, q) == IF ~q.info THEN None ELSE Some(Device(handle).info)

get_preparsed_data(handle, q) ==
    IF ~q.preparsed THEN None ELSE Some(Device(handle).preparsed)

Take(s, n) == SubSeq(s, 1, Min(n, Len(s)))

\* The claimed behaviour: no tables when any of the three retrievals fails.
parse_hid_caps_all_or_nothing(preparsed, q) ==
    IF \/ ~check_hidp(HidP_GetCaps(preparsed, q).status)
       \/ ~check_hidp(HidP_GetValueCaps(preparsed, q).status)
       \/ ~check_hidp(HidP_GetButtonCaps(preparsed, q).status)
    THEN None
    ELSE Some([caps |-> HidP_GetCaps(preparsed, q).caps,
               value_caps |-> preparsed.value_caps,
               button_caps |-> preparsed.button_caps])

parse_hid_caps(preparsed, q) ==
    LET c == HidP_GetCaps(preparsed, q)
        v == HidP_GetValueCaps(preparsed, q)
        b == HidP_GetButtonCaps(preparsed, q)
    IN  IF ~check_hidp(c.status)
        THEN None
        ELSE Some([caps |-> c.caps,
                   value_caps |-> IF ~check_hidp(v.status)
                                  THEN <<>>
                                  ELSE Take(v.array, v.count),
                   button_caps |-> IF ~check_hidp(b.status)
                                   THEN <<>>
                                   ELSE Take(b.array, b.count)])

\* DeviceState.__init__
DeviceState(handle, q) ==
    LET preparsed == get_preparsed_data(handle, q)
        parsed == IF preparsed # None THEN parse_hid_caps(preparsed[1], q) ELSE None
    IN  [handle |-> handle,
         name |-> get_device_name(handle, q),
         info |-> get_device_info(handle, q),
         preparsed |-> preparsed,
         caps |-> IF parsed # None THEN Some(parsed[1].caps) ELSE None,
         value_caps |-> IF parsed # None THEN parsed[1].value_caps ELSE <<>>,
         button_caps |-> IF parsed # None THEN parsed[1].button_caps ELSE <<>>]

\* DeviceState.usage_page, DeviceState.usage
DeviceState_usage_page(state) == IF state.info = None THEN None ELSE Some(state.info[1].usUsagePage)

DeviceState_usage(state) == IF state.info = None THEN None ELSE Some(state.info[1].usUsage)

---------------------------------------------------------------------------
(* RawInputLogger *)

LowerChar(c) ==
    CASE c = "T" -> "t" [] c = "H" -> "h" [] c = "R" -> "r"
      [] c = "L" -> "l" [] c = "O" -> "o" [] c = "G" -> "g"
      [] OTHER -> c

\* str.lower()
lower(str) == [i \in 1..Len(str) |-> LowerChar(str[i])]

\* "sub in str"
Contains(sub, str) ==
    \E i \in 0..(Len(str) - Len(sub)) : SubSeq(str, i + 1, i + Len(sub)) = sub

\* RawInputLogger.__init__: "device_filter.lower() if device_filter else None"
init_device_filter(arg) == IF arg = None \/ arg = <<>> THEN None ELSE Some(lower(arg))

\* RawInputLogger._match_filter
match_filter(filter, name) ==
    IF filter = None THEN TRUE ELSE Contains(filter[1], lower(name))

\* A slip: the state is cached before the filter is checked.
get_device_state_cache_first(cache, filter, handle, q) ==
    IF handle \in DOMAIN cache
    THEN [state |-> Some(cache[handle]), device_cache |-> cache, constructed |-> FALSE]
    ELSE LET state == DeviceState(handle, q)
         IN  [state |-> IF ~match_filter(filter, state.name) THEN None ELSE Some(state),
              device_cache |-> (handle :> state) @@ cache,
              constructed |-> TRUE]

\* A slip: a device without preparsed data is left out like a filtered one.
get_device_state_skip_unavailable(cache, filter, handle, q) ==
    IF handle \in DOMAIN cache
    THEN [state |-> Some(cache[handle]), device_cache |-> cache, constructed |-> FALSE]
    ELSE LET state == DeviceState(handle, q)
         IN  IF ~match_filter(filter, state.name) \/ state.preparsed = None
             THEN [state |-> None, device_cache |-> cache, constructed |-> TRUE]
             ELSE [state |-> Some(state),
                   device_cache |-> (handle :> state) @@ cache,
                   constructed |-> TRUE]

\* RawInputLogger.get_device_state: the state returned, the cache afterwards, and
\* whether DeviceState(handle) was constructed.
get_device_state(cache, filter, handle, q) ==
    IF handle \in DOMAIN cache
    THEN [state |-> Some(cache[handle]), device_cache |-> cache, constructed |-> FALSE]
    ELSE LET state == DeviceState(handle, q)
         IN  IF ~match_filter(filter, state.name)
             THEN [state |-> None, device_cache |-> cache, constructed |-> TRUE]
             ELSE [state |-> Some(state),
                   device_cache |-> (handle :> state) @@ cache,
                   constructed |-> TRUE]

\* Whether the loop attempts decode_hid_report for this device.
decodes(device_state) ==
    device_state.preparsed # None /\ device_state.value_caps # <<>>

\* One pass of the loop "for report in reports": the row written for report i.
\* A decode that faults (i in faults) raises inside the try block.  report_hex
\* holds the report's bytes, axes_json and buttons_json the decoded values, and
\* timestamp_ms (one reading of the clock per notification, shared by its rows)
\* the notification's ordinal; timestamp_iso is the same instant and is left out.
event_row(device_state, report, faulted, ts) ==
    LET empty == [axes |-> <<>>, buttons |-> <<>>]
        decoded ==
            IF decodes(device_state)
            THEN IF faulted
                 THEN empty
                 ELSE decode_hid_report(report, device_state.preparsed[1],
                          device_state.value_caps, device_state.button_caps)
            ELSE empty
    IN  [timestamp_ms |-> ts,
         device_handle |-> device_state.handle,
         device_name |-> device_state.name,
         usage_page |-> DeviceState_usage_page(device_state),
         usage |-> DeviceState_usage(device_state),
         report_size |-> Len(report),
         report_hex |-> report,
         axes_json |-> decoded.axes,
         buttons_json |-> decoded.buttons]

\* A slip: no try/except, so a fault ends the loop and the rest of the batch is lost.
event_rows_uncaught(device_state, reports, faults, ts) ==
    LET stop == IF decodes(device_state) /\ faults \cap (1..Len(reports)) # {}
                THEN (CHOOSE i \in faults \cap (1..Len(reports)) :
                         \A j \in faults \cap (1..Len(reports)) : i <= j) - 1
                ELSE Len(reports)
    IN  [i \in 1..stop |-> event_row(device_state, reports[i], FALSE, ts)]

\* A slip: write_event after the loop instead of in it, so only the last row is written.
event_rows_last_only(device_state, reports, faults, ts) ==
    IF reports = <<>>
    THEN <<>>
    ELSE <<event_row(device_state, reports[Len(reports)], Len(reports) \in faults, ts)>>

\* The rows the loop hands to writer.write_event, in order.
event_rows(device_state, reports, faults, ts) ==
    [i \in 1..Len(reports) |-> event_row(device_state, reports[i], i \in faults, ts)]

\* What GetRawInputData may deliver for a notification: ok is FALSE when either
\* call fails or the size is 0.
RawInput(ok, dwType, hDevice, dwSizeHid, dwCount, bRawData) ==
    [ok |-> ok, dwType |-> dwType, hDevice |-> hDevice, dwSizeHid |-> dwSizeHid,
     dwCount |-> dwCount, bRawData |-> bRawData]

RawInputs ==
    UNION { { RawInput(FALSE, RIM_TYPEHID, h, 3, 1, <<0, 5, 255>>),
              RawInput(TRUE, 0, h, 3, 1, <<0, 5, 255>>),
              RawInput(TRUE, RIM_TYPEHID, h, 3, 1, <<0, 5, 255>>),
              RawInput(TRUE, RIM_TYPEHID, h, 3, 2, <<255, 0, 5, 0, 5, 255>>),
              RawInput(TRUE, RIM_TYPEHID, h, 3, 2, <<255, 0, 5, 0, 5>>),
              RawInput(TRUE, RIM_TYPEHID, h, 1, 2, <<5, 0>>),
              RawInput(TRUE, RIM_TYPEHID, h, 3, 0, <<>>) } : h \in Handles }

\* RawInputLogger.handle_wm_input
handle_wm_input(raw, q, faults) ==
    IF ~raw.ok \/ raw.dwType # RIM_TYPEHID
    THEN UNCHANGED loggerVars
    ELSE LET raw_bytes == Take(raw.bRawData, raw.dwSizeHid * raw.dwCount)
             reports == parse_report_bytes(raw_bytes, raw.dwSizeHid, raw.dwCount)
             got == get_device_state(device_cache, device_filter, raw.hDevice, q)
             h == raw.hDevice
         IN  /\ nevents' = nevents + 1
             /\ device_cache' = got.device_cache
             /\ constructed' =
                    IF got.constructed
                    THEN (h :> (IF h \in DOMAIN constructed THEN constructed[h] + 1 ELSE 1))
                         @@ constructed
                    ELSE constructed
             /\ lastq' = IF got.constructed THEN (h :> q) @@ lastq ELSE lastq
             /\ UNCHANGED device_filter
             /\ IF got.state = None
                THEN UNCHANGED <<sink, last>>
                ELSE /\ sink' = sink \o event_rows(got.state[1], reports, faults,
                                                   nevents + 1)
                     /\ last' = Some([handle |-> h, raw |-> raw, reports |-> reports,
                                      faults |-> IF decodes(got.state[1])
                                                 THEN faults ELSE {},
                                      base |-> Len(sink)])

FilterArgs == {None, <<"T", "H">>}

Init ==
    /\ device_filter \in {init_device_filter(arg) : arg \in FilterArgs}
    /\ device_cache = <<>>
    /\ sink = <<>>
    /\ nevents = 0
    /\ constructed = <<>>
    /\ lastq = <<>>
    /\ last = None
    /\ call = <<>>
    /\ ret = <<>>

\* The query outcomes that matter to a notification (queries are made only when a
\* DeviceState is constructed) and the decodes that may fault (those attempted).
Queried(raw) ==
    IF raw.ok /\ raw.dwType = RIM_TYPEHID /\ raw.hDevice \notin DOMAIN device_cache
    THEN QueryOutcomes
    ELSE {AllOk}

Faultable(raw, q) ==
    LET got == get_device_state(device_cache, device_filter, raw.hDevice, q)
    IN  IF raw.ok /\ raw.dwType = RIM_TYPEHID /\ got.state # None /\ decodes(got.state[1])
        THEN SUBSET (1..Len(parse_report_bytes(
                            Take(raw.bRawData, raw.dwSizeHid * raw.dwCount),
                            raw.dwSizeHid, raw.dwCount)))
        ELSE {{}}

WmInput ==
    /\ nevents < MaxEvents
    /\ \E raw \in RawInputs :
           \E q \in Queried(raw) :
               \E faults \in Faultable(raw, q) :
                   handle_wm_input(raw, q, faults)
    /\ UNCHANGED callVars

Next == WmInput

Spec == Init /\ [][Next]_vars

---------------------------------------------------------------------------
(* Specifications of the pure functions: Init draws the arguments, the     *)
(* action applies the function.                                            *)

Byte == {0, 5, 255}

SeqUpTo(S, n) == UNION {[1..k -> S] : k \in 0..n}

LoggerIdle ==
    /\ device_filter = None
    /\ device_cache = <<>>
    /\ sink = <<>>
    /\ nevents = 0
    /\ constructed = <<>>
    /\ lastq = <<>>
    /\ last = None

InitSegment ==
    /\ LoggerIdle
    /\ call \in [data : SeqUpTo(Byte, MaxBlobLen),
                 report_size : 0..MaxReportSize,
                 count : 0..MaxCount]
    /\ ret = <<>>

CallSegment ==
    /\ ret = <<>>
    /\ ret' = Some(parse_report_bytes(call.data, call.report_size, call.count))
    /\ UNCHANGED <<call, loggerVars>>

SpecSegment == InitSegment /\ [][CallSegment]_vars

Logical == (-MaxLogical..MaxLogical) \cup {-32768, -128, 127, 255, 32767, 65535}

InitNormalize ==
    /\ LoggerIdle
    /\ call \in [value : Logical, logical_min : Logical, logical_max : Logical]
    /\ ret = <<>>

CallNormalize ==
    /\ ret = <<>>
    /\ ret' = Some(normalize_value(call.value, call.logical_min, call.logical_max))
    /\ UNCHANGED <<call, loggerVars>>

SpecNormalize == InitNormalize /\ [][CallNormalize]_vars

\* Capabilities a report descriptor may declare.
ValueCap(page, isRange, umin, umax, lmin, lmax, bits) ==
    [UsagePage |-> page, IsRange |-> isRange, UsageMin |-> umin, UsageMax |-> umax,
     LogicalMin |-> lmin, LogicalMax |-> lmax, BitSize |-> bits,
     ReportCount |-> IF isRange THEN umax - umin + 1 ELSE 1]

ButtonCap(page, link, isRange, umin, umax) ==
    [UsagePage |-> page, LinkCollection |-> link, IsRange |-> isRange,
     UsageMin |-> umin, UsageMax |-> umax]

ValueCapChoices ==
    { ValueCap(USAGE_PAGE_GENERIC_DESKTOP, FALSE, USAGE_X, USAGE_X, -32768, 32767, 16),
      ValueCap(USAGE_PAGE_GENERIC_DESKTOP, FALSE, USAGE_X, USAGE_X, 0, 0, 8),
      ValueCap(USAGE_PAGE_GENERIC_DESKTOP, TRUE, USAGE_HAT, USAGE_HAT + 1, 0, 255, 8),
      ValueCap(USAGE_PAGE_GENERIC_DESKTOP + 1, FALSE, USAGE_X, USAGE_X, 0, 255, 8) }

ButtonCapChoices ==
    { ButtonCap(9, 0, TRUE, 4, 6),
      ButtonCap(9, 0, FALSE, 5, 5),
      ButtonCap(9, 1, TRUE, 5, 6),
      ButtonCap(9, 0, TRUE, 7, 6) }

InitDecode ==
    /\ LoggerIdle
    /\ call \in [report : SeqUpTo(Byte, MaxReportLen),
                 value_caps : SeqUpTo(ValueCapChoices, MaxValueCaps),
                 button_caps : SeqUpTo(ButtonCapChoices, MaxButtonCaps)]
    /\ ret = <<>>

CallDecode ==
    /\ ret = <<>>
    /\ ret' = Some(decode_hid_report(call.report,
                       [value_caps |-> call.value_caps, button_caps |-> call.button_caps],
                       call.value_caps, call.button_caps))
    /\ UNCHANGED <<call, loggerVars>>

SpecDecode == InitDecode /\ [][CallDecode]_vars

Statuses == {"SUCCESS", "INVALID_PREPARSED_DATA"}

InitCaps ==
    /\ LoggerIdle
    /\ call \in [handle : Handles,
                 q : [name : BOOLEAN, info : BOOLEAN, preparsed : BOOLEAN,
                      caps : Statuses, value_caps : Statuses, button_caps : Statuses]]
    /\ ret = <<>>

CallDeviceState ==
    /\ ret = <<>>
    /\ ret' = Some(DeviceState(call.handle, call.q))
    /\ UNCHANGED <<call, loggerVars>>

SpecCaps == InitCaps /\ [][CallDeviceState]_vars

---------------------------------------------------------------------------
(* C1: parse_report_bytes returns exactly min(count, len(data) div         *)
(* report_size) slices when report_size >= 1: none for a blob shorter than *)
(* report_size, and a partial trailing report is dropped, never padded     *)
(* (every slice has report_size bytes and is the blob's own bytes).        *)
C1_SliceCount ==
    (ret # <<>> /\ call.report_size >= 1) =>
        LET reports == ret[1]
            n == Min(call.count, Len(call.data) \div call.report_size)
        IN  /\ Len(reports) = n
            /\ Len(call.data) < call.report_size => reports = <<>>
            /\ \A i \in 1..Len(reports) :
                   reports[i] = SubSeq(call.data, (i - 1) * call.report_size + 1,
                                       i * call.report_size)

\* A blob with two whole reports and a partial third, three asked for.
C1_Witness ==
    /\ ret # <<>>
    /\ call.report_size = 2
    /\ call.count = 3
    /\ Len(call.data) = 4
    /\ Len(ret[1]) = 2

(* C2: for logical_min < logical_max, value = logical_max normalizes to    *)
(* exactly 1; value = logical_min to exactly -1 when logical_min < 0 and   *)
(* to exactly 0 when logical_min >= 0.                                     *)
C2_Endpoints ==
    (ret # <<>> /\ call.logical_min < call.logical_max) =>
        /\ call.value = call.logical_max => ret[1] = Some(Float(1, 1))
        /\ (call.value = call.logical_min /\ call.logical_min < 0) =>
               ret[1] = Some(Float(-1, 1))
        /\ (call.value = call.logical_min /\ call.logical_min >= 0) =>
               ret[1] = Some(Float(0, 1))

\* The lower endpoint of a signed range has been normalized.
C2_Witness ==
    /\ ret # <<>>
    /\ call.logical_min = -32768
    /\ call.logical_max = 32767
    /\ call.value = call.logical_min
    /\ ret[1] = Some([num |-> -1, den |-> 1])

\* The decode call's preparsed data, and the usages a value capability expands to.
CallPreparsed == [value_caps |-> call.value_caps, button_caps |-> call.button_caps]

CapUsages(cap) ==
    IF cap.IsRange
    THEN {u \in RangeUsageMin(cap)..RangeUsageMax(cap) : TRUE}
    ELSE {NotRangeUsage(cap)}

(* C3: a value capability with logical_min = logical_max normalizes every  *)
(* value to None, and decode_hid_report still records its axis (for a      *)
(* named generic-desktop usage whose value was read, and unless a later    *)
(* capability overwrites the name) with the raw value, min, max and norm   *)
(* None.                                                                   *)
C3_DegenerateRange ==
    ret # <<>> =>
        \A i \in 1..Len(call.value_caps) :
            LET cap == call.value_caps[i]
            IN  cap.LogicalMin = cap.LogicalMax =>
                /\ \A v \in Logical :
                       normalize_value(v, cap.LogicalMin, cap.LogicalMax) = None
                /\ \A usage \in CapUsages(cap) \cap DOMAIN AXIS_USAGE_NAMES :
                       LET value == hid_get_usage_value(CallPreparsed, call.report,
                                        Len(call.report), cap.UsagePage, usage)
                           later == \E j \in (i + 1)..Len(call.value_caps) :
                                        CapHasUsage(call.value_caps[j],
                                            USAGE_PAGE_GENERIC_DESKTOP, usage)
                       IN  (/\ cap.UsagePage = USAGE_PAGE_GENERIC_DESKTOP
                            /\ value # None
                            /\ ~later) =>
                               /\ AXIS_USAGE_NAMES[usage] \in DOMAIN ret[1].axes
                               /\ ret[1].axes[AXIS_USAGE_NAMES[usage]] =
                                      [raw |-> value[1], norm |-> None,
                                       min |-> cap.LogicalMin, max |-> cap.LogicalMax]

\* An x axis whose range is 0..0 was decoded from a report carrying 255.
C3_Witness ==
    /\ ret # <<>>
    /\ Len(call.value_caps) = 1
    /\ call.value_caps[1].LogicalMin = 0
    /\ call.value_caps[1].LogicalMax = 0
    /\ call.report # <<>>
    /\ call.report[1] = 255
    /\ "x" \in DOMAIN ret[1].axes
    /\ ret[1].axes["x"].raw = 255
    /\ ret[1].axes["x"].norm = None

(* C4: the buttons decode_hid_report returns are strictly ascending (no    *)
(* duplicates) and are exactly the distinct ids the per-capability usage   *)
(* queries returned, also when capabilities overlap.                       *)
C4_ButtonsSortedDistinct ==
    ret # <<>> =>
        LET b == ret[1].buttons
            queried ==
                UNION { SetOf(hid_get_usages(CallPreparsed, call.report, Len(call.report),
                                  call.button_caps[i].UsagePage,
                                  call.button_caps[i].LinkCollection,
                                  ButtonSpan(call.button_caps[i]))) :
                        i \in {k \in 1..Len(call.button_caps) :
                                  ButtonSpan(call.button_caps[k]) > 0} }
        IN  /\ \A i \in 1..(Len(b) - 1) : b[i] < b[i + 1]
            /\ SetOf(b) = queried

\* Two capabilities both returned usage id 5, and the result holds a single 5.
C4_Witness ==
    /\ ret # <<>>
    /\ Len(call.button_caps) = 2
    /\ \A i \in 1..2 :
           5 \in SetOf(hid_get_usages(CallPreparsed, call.report, Len(call.report),
                           call.button_caps[i].UsagePage,
                           call.button_caps[i].LinkCollection,
                           ButtonSpan(call.button_caps[i])))
    /\ ret[1].buttons = <<5>>

\* The case of C10: usage x, range -32768..32767, raw value 0.
C10_Case ==
    /\ ret # <<>>
    /\ "x" \in DOMAIN ret[1].axes
    /\ ret[1].axes["x"].raw = 0
    /\ ret[1].axes["x"].min = -32768
    /\ ret[1].axes["x"].max = 32767

(* C10, as amended: for usage x with range -32768..32767 a raw value of 0  *)
(* decodes to axes["x"] with raw 0, min -32768, max 32767 and the          *)
(* normalized value (32768 / 65535) * 2 - 1 = 1/65535, about +0.0000153:   *)
(* slightly above zero.                                                    *)
C10_SlightlyAboveZero ==
    C10_Case => ret[1].axes["x"].norm = Some([num |-> 1, den |-> 65535])

C10_Witness ==
    /\ C10_Case
    /\ call.value_caps = <<ValueCap(USAGE_PAGE_GENERIC_DESKTOP, FALSE, USAGE_X, USAGE_X,
                                    -32768, 32767, 16)>>
    /\ call.report = <<0, 0>>

(* C10, as claimed: the normalized value is slightly below zero.           *)
C10_SlightlyBelowZero ==
    C10_Case =>
        /\ ret[1].axes["x"].norm # None
        /\ ret[1].axes["x"].norm[1].num < 0

RowsOf(h) == {i \in 1..Len(sink) : sink[i].device_handle = h}

NamePasses(h) == match_filter(device_filter, Device(h).name)

(* C5: with a name filter set, a device whose display name does not        *)
(* contain it (case-insensitively) is never in the device cache and no     *)
(* row of the sink is for its handle, whatever events have been handled.   *)
C5_FilteredNeverCached ==
    device_filter # None =>
        \A h \in Handles :
            ~Contains(device_filter[1], lower(Device(h).name)) =>
                /\ h \notin DOMAIN device_cache
                /\ RowsOf(h) = {}

\* Two notifications of a device the filter rejects have been handled.
C5_Witness ==
    /\ device_filter # None
    /\ 2 \in DOMAIN constructed
    /\ constructed[2] = 2
    /\ ~NamePasses(2)
    /\ 2 \notin DOMAIN device_cache

(* C6, as claimed: for every handle, DeviceState construction and the      *)
(* filter check run at most once, on the first event seen for the handle.  *)
C6_ResolvedAtMostOnce ==
    \A h \in DOMAIN constructed : constructed[h] <= 1

(* C7: a report whose decode faults is still written, with empty axes and  *)
(* buttons; the other reports of the batch (and of later notifications,    *)
(* the property holding after each) are written decoded as usual; and the  *)
(* cached DeviceState stays what was constructed.                          *)
C7_FaultIsolation ==
    /\ \A h \in DOMAIN device_cache : device_cache[h] = DeviceState(h, lastq[h])
    /\ last # None =>
           LET l == last[1]
               st == device_cache[l.handle]
           IN  /\ Len(sink) = l.base + Len(l.reports)
               /\ \A i \in 1..Len(l.reports) :
                      LET row == sink[l.base + i]
                      IN  /\ row.report_hex = l.reports[i]
                          /\ row.device_handle = l.handle
                          /\ i \in l.faults =>
                                 row.axes_json = <<>> /\ row.buttons_json = <<>>
                          /\ (i \notin l.faults /\ decodes(st)) =>
                                 LET d == decode_hid_report(l.reports[i], st.preparsed[1],
                                              st.value_caps, st.button_caps)
                                 IN  /\ row.axes_json = d.axes
                                     /\ row.buttons_json = d.buttons

\* The first report of a batch of two faulted, and the second was decoded.
C7_Witness ==
    /\ last # None
    /\ Len(last[1].reports) = 2
    /\ last[1].faults = {1}
    /\ Len(sink) = last[1].base + 2
    /\ sink[last[1].base + 1].axes_json = <<>>
    /\ sink[last[1].base + 2].axes_json # <<>>
    /\ sink[last[1].base + 2].buttons_json # <<>>

\* Whether a status is a failure of the retrieval.
Failed(status) == ~check_hidp(HidpStatus(status))

(* C8, as amended: parse_hid_caps returns no tables at all exactly when    *)
(* the summary retrieval (HidP_GetCaps) reports a non-success status.  A   *)
(* non-success status of the value-capability retrieval leaves only the    *)
(* value table empty, and one of the button-capability retrieval only the  *)
(* button table empty: the summary and the other table are returned.       *)
C8_PartialTables ==
    (ret # <<>> /\ call.q.preparsed) =>
        LET st == ret[1]
            dev == Device(call.handle).preparsed
        IN  /\ Failed(call.q.caps) =>
                   st.caps = None /\ st.value_caps = <<>> /\ st.button_caps = <<>>
            /\ ~Failed(call.q.caps) =>
                   /\ st.caps # None
                   /\ st.value_caps =
                          IF Failed(call.q.value_caps) THEN <<>> ELSE dev.value_caps
                   /\ st.button_caps =
                          IF Failed(call.q.button_caps) THEN <<>> ELSE dev.button_caps

\* The value-capability retrieval failed and the button table was kept.
C8_Witness ==
    /\ ret # <<>>
    /\ call.q.preparsed
    /\ ~Failed(call.q.caps)
    /\ Failed(call.q.value_caps)
    /\ ~Failed(call.q.button_caps)
    /\ ret[1].caps # None
    /\ ret[1].value_caps = <<>>
    /\ ret[1].button_caps # <<>>

(* C8, as claimed: whenever any of the three retrievals reports a          *)
(* non-success status, no tables are returned and the device is left with  *)
(* empty value- and button-capability tables.                              *)
C8_AllOrNothing ==
    (/\ ret # <<>>
     /\ call.q.preparsed
     /\ Failed(call.q.caps) \/ Failed(call.q.value_caps) \/ Failed(call.q.button_caps)) =>
        /\ ret[1].caps = None
        /\ ret[1].value_caps = <<>>
        /\ ret[1].button_caps = <<>>

(* C9, as amended: a failed name, info or descriptor query leaves the      *)
(* field empty (empty name, absent identity, absent descriptor with empty  *)
(* capability tables), and the device is cached exactly when that name     *)
(* passes the filter: always without a filter, never when a filter is set  *)
(* and the name query failed.  The rows of a cached device whose           *)
(* descriptor query failed have empty axes and buttons.                    *)
C9_BestEffort ==
    \A h \in DOMAIN constructed :
        LET q == lastq[h]
        IN  /\ h \in DOMAIN device_cache <=>
                   \/ device_filter = None
                   \/ q.name /\ Contains(device_filter[1], lower(Device(h).name))
            /\ h \in DOMAIN device_cache =>
                   LET st == device_cache[h]
                   IN  /\ ~q.name => st.name = <<>>
                       /\ ~q.info =>
                              /\ st.info = None
                              /\ \A i \in RowsOf(h) :
                                     sink[i].usage_page = None /\ sink[i].usage = None
                       /\ ~q.preparsed =>
                              /\ st.preparsed = None
                              /\ st.caps = None
                              /\ st.value_caps = <<>>
                              /\ st.button_caps = <<>>
                              /\ \A i \in RowsOf(h) :
                                     sink[i].axes_json = <<>> /\ sink[i].buttons_json = <<>>

\* Without a filter, a device all of whose queries failed is cached and logged.
C9_Witness ==
    /\ device_filter = None
    /\ 1 \in DOMAIN device_cache
    /\ ~lastq[1].name /\ ~lastq[1].info /\ ~lastq[1].preparsed
    /\ device_cache[1].name = <<>>
    /\ RowsOf(1) # {}

(* C9, as claimed: a device one of whose queries failed is cached          *)
(* whatever the filter (stated for the devices whose display name passes   *)
(* the filter, so that only the failure can exclude them).                 *)
C9_NeverExcluded ==
    \A h \in DOMAIN constructed :
        (/\ ~lastq[h].name \/ ~lastq[h].info \/ ~lastq[h].preparsed
         /\ NamePasses(h)) =>
            h \in DOMAIN device_cache

(* C11, as claimed: for a cached device that has preparsed data, whatever  *)
(* its value-capability table holds, the buttons of the row written for a  *)
(* report (one whose decode did not fault) are the asserted usage ids      *)
(* accumulated over all of the device's button capabilities, each queried  *)
(* with its usage span.                                                    *)
C11_ButtonsOfEveryCapability ==
    last # None =>
        LET l == last[1]
            st == device_cache[l.handle]
        IN  st.preparsed # None =>
                \A i \in (1..Len(l.reports)) \ l.faults :
                    sink[l.base + i].buttons_json =
                        Sorted(SetOf(decode_buttons(l.reports[i], st.preparsed[1],
                                                    st.button_caps, 1, <<>>)))

(* C12: handling one notification of a cached device appends to the sink  *)
(* exactly one row per segmented report (min(dwCount, len div dwSizeHid)   *)
(* of them), in the order of the reports in the blob, each with that       *)
(* report's own bytes and size; the rows of a notification all precede     *)
(* those of the next (the sink is ordered by notification); and the only   *)
(* state kept, the device cache, holds what was constructed from the       *)
(* handle's queries and nothing of the rows.                               *)
C12_RunToCompletion ==
    /\ \A i \in 1..Len(sink) : sink[i].timestamp_ms <= nevents
    /\ \A i \in 1..(Len(sink) - 1) : sink[i].timestamp_ms <= sink[i + 1].timestamp_ms
    /\ \A h \in DOMAIN device_cache : device_cache[h] = DeviceState(h, lastq[h])
    /\ last # None =>
           LET l == last[1]
               size == l.raw.dwSizeHid
               blob == Take(l.raw.bRawData, size * l.raw.dwCount)
               n == Min(l.raw.dwCount, Len(blob) \div size)
           IN  /\ Len(sink) = l.base + n
               /\ \A i \in 1..n :
                      /\ sink[l.base + i].report_hex = SubSeq(blob, (i - 1) * size + 1, i * size)
                      /\ sink[l.base + i].report_size = size
                      /\ sink[l.base + i].device_handle = l.handle
                      /\ sink[l.base + i].timestamp_ms = sink[l.base + 1].timestamp_ms
               /\ \A i \in 1..l.base :
                      n > 0 => sink[i].timestamp_ms < sink[l.base + 1].timestamp_ms

\* The second notification carried two different reports, written in blob order
\* after the rows of the first.
C12_Witness ==
    /\ last # None
    /\ nevents = 2
    /\ last[1].base > 0
    /\ last[1].raw.dwCount = 2
    /\ Len(sink) = last[1].base + 2
    /\ sink[last[1].base + 1].report_hex = <<255, 0, 5>>
    /\ sink[last[1].base + 2].report_hex = <<0, 5, 255>>
    /\ sink[last[1].base].timestamp_ms = 1
    /\ sink[last[1].base + 1].timestamp_ms = 2

\* The bits of a field encode a negative number of the field's width.
EncodesNegative(cap, value) == value >= 2 ^ (cap.BitSize - 1)

(* C13: the raw value recorded for an axis is the field read as an         *)
(* unsigned quantity, never sign-extended: 0 <= raw < 2^32 (written        *)
(* raw div 2^16 < 2^16) also when logical_min is negative; so for a signed *)
(* range a field whose bits encode a negative number is recorded with      *)
(* raw > logical_max and a normalized value above 1.                       *)
C13_RawUnsigned ==
    ret # <<>> =>
        /\ \A name \in DOMAIN ret[1].axes :
               /\ ret[1].axes[name].raw >= 0
               /\ ret[1].axes[name].raw \div 65536 < 65536
        /\ \A i \in 1..Len(call.value_caps) :
               LET cap == call.value_caps[i]
               IN  \A usage \in CapUsages(cap) \cap DOMAIN AXIS_USAGE_NAMES :
                       LET value == hid_get_usage_value(CallPreparsed, call.report,
                                        Len(call.report), cap.UsagePage, usage)
                           later == \E j \in (i + 1)..Len(call.value_caps) :
                                        CapHasUsage(call.value_caps[j],
                                            USAGE_PAGE_GENERIC_DESKTOP, usage)
                       IN  (/\ cap.UsagePage = USAGE_PAGE_GENERIC_DESKTOP
                            /\ cap.LogicalMin < 0
                            /\ cap.LogicalMin < cap.LogicalMax
                            /\ value # None
                            /\ EncodesNegative(cap, value[1])
                            /\ ~later) =>
                               LET r == ret[1].axes[AXIS_USAGE_NAMES[usage]]
                               IN  /\ r.raw = value[1]
                                   /\ r.raw > cap.LogicalMax
                                   /\ r.norm # None
                                   /\ r.norm[1].num > r.norm[1].den

\* The 16-bit field of x (range -32768..32767) held 0xFF05, -251 as a signed
\* number: recorded as 65285 with a normalized value above 1.
C13_Witness ==
    /\ ret # <<>>
    /\ call.report = <<5, 255>>
    /\ "x" \in DOMAIN ret[1].axes
    /\ ret[1].axes["x"].min = -32768
    /\ ret[1].axes["x"].raw = 65285
    /\ ret[1].axes["x"].norm # None
    /\ ret[1].axes["x"].norm[1].num > ret[1].axes["x"].norm[1].den

===========================================================================
